---- MODULE Spec2Model ----
(***************************************************************************)
(* Forwardbot.py: a Discord client that relays the messages of a fixed set *)
(* of channels to a website with one HTTP POST per message.                *)
(*                                                                         *)
(* The program is one asyncio event loop.  main() awaits client.start();   *)
(* the gateway client schedules one task per event, and a task runs        *)
(* without interruption up to its next await.  on_message has exactly one  *)
(* await (post_to_website), whose body suspends at session.post() and, for *)
(* a status other than 200, again at resp.text().  Each action below is    *)
(* one such uninterrupted step.                                            *)
(*                                                                         *)
(* Identifiers that Discord hands out are 64-bit snowflakes; channel and   *)
(* user identifiers are written here as their decimal text, message        *)
(* identifiers as small integers (only equality and counting matter).      *)
(***************************************************************************)
EXTENDS Integers, Sequences, FiniteSets, TLC

VARIABLES
    RECENT_IDS,    \* the set of message ids already handed to the forwarder
    http_session,  \* None or the handle of the current aiohttp.ClientSession
    sessions,      \* every ClientSession object ever constructed, by handle
    environ,       \* os.environ's entry INGEST_TOKEN when the module is loaded
    INGEST_TOKEN,  \* the stripped INGEST_TOKEN environment value
    mainpc,        \* where main() stands
    exitpath,      \* how client.start() ended
    posts,         \* every call of session.post(), with the state of its task
    stdout,        \* the distinct lines print() has written
    epoch,         \* how many times RECENT_IDS.clear() has run since Init
    last,          \* the latest on_message invocation: its message and what it did
    nmsg           \* on_message invocations past the duplicate check since Init

vars == <<RECENT_IDS, http_session, sessions, environ, INGEST_TOKEN, mainpc,
          exitpath, posts, stdout, epoch, last, nmsg>>

-----------------------------------------------------------------------------
(* Bounds of the exploration *)

MaxMessages == 2

-----------------------------------------------------------------------------
(* Program constants *)

LedgerLimit == 5000

HTTP_OK == 200

None == 0

API_URL == "https://dacapperclub.onrender.com/picks"

SOURCE_CHANNEL_IDS ==
    { "1376084801974567033", "1355683438455160892", "1437566118511382548",
      "1438456354531709009", "1341495756019863572", "1341495848973893725",
      "1424866369635090472", "1341495927994581074", "1438379286779265154",
      "1341495943815630908", "1429291734550057032", "1341496027374424114",
      "1355684172844367872", "1341498223336099840", "1373974011049938954",
      "1341499471812624465", "1422712121145430137", "1340466570303897613",
      "1341493924187078810", "1341495657546121256", "1438456068471652364",
      "1375638948331917432", "1366617380947492905", "1423891465305718814",
      "1429292260750790769", "1352867581694054520", "1358600346162823225",
      "1355683644164800714", "1341495693164019752", "1438379846693556255",
      "1373750190061781002", "1362542525482537131", "1341495872684556340",
      "1366617614863826975", "1364334395355304026", "1341495902707253351",
      "1351112911715831829", "1352867416576622663", "1341495966695690394",
      "1341495978317840384", "1351109955574304849", "1341496002569310218",
      "1343588079348486244", "1350407569960861696", "1350408208522547200",
      "1341498236770324590", "1341498268969865246", "1350408056147677264",
      "1341495989466304624", "1352382567298629764", "1355684864396890132",
      "1341500024713904302", "1375270170330792108", "1359371937775878264",
      "1368323336257540148", "1341497886638215178", "1366528741592797224",
      "1341498255258812540", "1341499454376775831", "1053085749865623562",
      "1219395974355746846", "1053085779422871613", "1053085807382110310",
      "1053085694836346880" }

-----------------------------------------------------------------------------
(* The environment: configuration, gateway events, HTTP outcomes *)

\* os.getenv("INGEST_TOKEN"): unset, or a text given character by character.
EnvValues ==
    { [present |-> FALSE, chars |-> << >>],
      [present |-> TRUE,  chars |-> << " ", " " >>],
      [present |-> TRUE,  chars |-> << " ", "t", "o", "k", " " >>] }

\* The bot's own user and another author.
client_user == [id |-> "1200000000000000001", name |-> "bot"]

alice == [id |-> "1200000000000000002", name |-> "alice"]

Authors == {client_user, alice}

\* A monitored channel and one that is not in SOURCE_CHANNEL_IDS.
Channels ==
    { [id |-> "1376084801974567033", name |-> "picks"],
      [id |-> "1100000000000000009", name |-> "general"] }

\* Messages that arrive before the first ready event leave their ids in the
\* ledger without a POST (lines 144 and 183-184); the exploration starts
\* after none, 4999 or 5000 of them.
Backlogs == {0, LedgerLimit - 1, LedgerLimit}

MsgIds == {LedgerLimit + 1, LedgerLimit + 2}

NoContentType == "None"

ContentOf(id) == IF id = LedgerLimit + 1 THEN "pick: Lakers -4" ELSE ""

AttachmentsOf(id) ==
    IF id = LedgerLimit + 1
    THEN << [filename |-> "a.png", url |-> "https://cdn/a.png",
             content_type |-> "image/png", size |-> 10],
            [filename |-> "b.bin", url |-> "https://cdn/b.bin",
             content_type |-> NoContentType, size |-> 20] >>
    ELSE << >>

\* An embed whose to_dict() raises has raises = TRUE.
EmbedsOf(id) ==
    IF id = LedgerLimit + 1
    THEN << [title |-> "bad", raises |-> TRUE], [title |-> "odds", raises |-> FALSE] >>
    ELSE << >>

Message(id, author, channel) ==
    [id |-> id, author |-> author, channel |-> channel,
     content |-> ContentOf(id), attachments |-> AttachmentsOf(id),
     embeds |-> EmbedsOf(id), created_at |-> "2024-01-01T00:00:00"]

picks == [id |-> "1376084801974567033", name |-> "picks"]

\* Every author and channel for the first id, and a second message that
\* passes both filters.
Messages ==
    { Message(LedgerLimit + 1, a, c) : a \in Authors, c \in Channels }
        \cup { Message(LedgerLimit + 2, alice, picks) }

NoMessage == Message(0, alice, CHOOSE c \in Channels : TRUE)

Responses ==
    { [status |-> 200, body |-> "ok"],
      [status |-> 500, body |-> "server error"] }

-----------------------------------------------------------------------------
(* Helpers of the handlers *)

IsSpace(ch) == ch \in {" ", "\t", "\n"}

RECURSIVE LStrip(_)
LStrip(s) == IF s # << >> /\ IsSpace(Head(s)) THEN LStrip(Tail(s)) ELSE s

RECURSIVE RStrip(_)
RStrip(s) ==
    IF s # << >> /\ IsSpace(s[Len(s)]) THEN RStrip(SubSeq(s, 1, Len(s) - 1)) ELSE s

RECURSIVE Text(_)
Text(s) == IF s = << >> THEN "" ELSE Head(s) \o Text(Tail(s))

\* variant: the environment value is taken as it is, without strip()
StripEnv_unstripped(e) == Text(IF e.present THEN e.chars ELSE << >>)

\* (os.getenv("INGEST_TOKEN") or "").strip()
StripEnv(e) == Text(LStrip(RStrip(IF e.present THEN e.chars ELSE << >>)))

\* headers of post_to_website
Headers(token) ==
    IF token # ""
    THEN { <<"Content-Type", "application/json">>, <<"x-ingest-token", token>> }
    ELSE { <<"Content-Type", "application/json">> }

\* print(...)
Printed(out, l) == out \cup {l}

Line(text, status, arg, by) == [line |-> text, status |-> status, arg |-> arg, by |-> by]

\* variant: the own-message test never fires
IsOwnMessage_never(m) == FALSE

\* message.author.id == client.user.id
IsOwnMessage(m) == m.author.id = client_user.id

\* variant: every channel counts as monitored
NotMonitored_never(m) == FALSE

\* message.channel.id not in SOURCE_CHANNEL_IDS
NotMonitored(m) == m.channel.id \notin SOURCE_CHANNEL_IDS

\* variant: the ledger is never consulted
IsDuplicate_never(ids, m) == FALSE

\* variant: an id counts only once its POST is over, as if the add came after
\* the await
IsDuplicate_settled_only(ids, m) ==
    /\ m.id \in ids
    /\ \A i \in DOMAIN posts : posts[i].msg.id = m.id => posts[i].pc \notin {"post", "text"}

\* message.id in RECENT_IDS
IsDuplicate(ids, m) == m.id \in ids

\* variant: the size test is off by one
OverLimit_late(ids) == Cardinality(ids) > LedgerLimit + 1

\* len(RECENT_IDS) > 5000, evaluated after the add
OverLimit(ids) == Cardinality(ids) > LedgerLimit

\* variant: the id is added only when the session check lets the POST go on
LedgerAfter_when_posting(ids, m) ==
    IF http_session = None \/ sessions[http_session].closed
    THEN ids
    ELSE IF OverLimit(ids \cup {m.id}) THEN {} ELSE ids \cup {m.id}

\* variant: the clear comes before the add, so the new id survives the reset
LedgerAfter_clear_first(ids, m) ==
    IF OverLimit(ids \cup {m.id}) THEN {m.id} ELSE ids \cup {m.id}

\* variant: the id is not added
LedgerAfter_no_add(ids, m) == IF OverLimit(ids) THEN {} ELSE ids

\* RECENT_IDS.add(message.id) followed by the size check and the clear
LedgerAfter(ids, m) ==
    LET added == ids \cup {m.id}
    IN  IF OverLimit(added) THEN {} ELSE added

AttachmentDict(a) ==
    [filename |-> a.filename, url |-> a.url, contentType |-> a.content_type,
     size |-> a.size]

RECURSIVE AttachmentList(_)
AttachmentList(as) ==
    IF as = << >> THEN << >>
    ELSE << AttachmentDict(Head(as)) >> \o AttachmentList(Tail(as))

to_dict(e) == [title |-> e.title, type |-> "rich"]

\* variant: the first embed whose to_dict() raises ends the loop
RECURSIVE EmbedList_stops(_)
EmbedList_stops(es) ==
    IF es = << >> \/ Head(es).raises THEN << >>
    ELSE << to_dict(Head(es)) >> \o EmbedList_stops(Tail(es))

\* the embeds loop: an embed whose to_dict() raises is passed over
RECURSIVE EmbedList(_)
EmbedList(es) ==
    IF es = << >> THEN << >>
    ELSE IF Head(es).raises THEN EmbedList(Tail(es))
    ELSE << to_dict(Head(es)) >> \o EmbedList(Tail(es))

\* variant: the text is left out
ContentOrEmpty_dropped(m) == ""

\* message.content or ""
ContentOrEmpty(m) == IF m.content = "" THEN "" ELSE m.content

\* created_at.replace(tzinfo=timezone.utc).isoformat()
IsoFormatUtc(t) == t \o "+00:00"

Payload(m) ==
    [channelId   |-> m.channel.id,
     channelName |-> m.channel.name,
     authorId    |-> m.author.id,
     authorName  |-> m.author.name,
     content     |-> ContentOrEmpty(m),
     attachments |-> AttachmentList(m.attachments),
     embeds      |-> EmbedList(m.embeds),
     createdAt   |-> IsoFormatUtc(m.created_at)]

\* variant: every ready event constructs a session
NoOpenSession_always(s) == TRUE

\* on_ready: http_session is None or http_session.closed
NoOpenSession(s) == s = None \/ sessions[s].closed

\* variant: only a missing session is noticed
Unusable_none_only(s) == s = None

\* on_message: session is None or session.closed
Unusable(s) == s = None \/ sessions[s].closed

\* variant: a handler starts only when no POST is waiting
HandlersMayStart_one_at_a_time ==
    /\ mainpc \in {"running", "closing"}
    /\ \A i \in DOMAIN posts : posts[i].pc \notin {"post", "text"}

\* The gateway client schedules handlers while client.start() runs; one that
\* it scheduled just before client.start() ended takes its first step while
\* main() awaits http_session.close().
HandlersMayStart == mainpc \in {"running", "closing"}

-----------------------------------------------------------------------------
\* The shape of the state.
TypeOK ==
    /\ RECENT_IDS \subseteq (1..LedgerLimit) \cup MsgIds
    /\ http_session \in {None} \cup DOMAIN sessions
    /\ \A s \in DOMAIN sessions : sessions[s].closed \in BOOLEAN /\ sessions[s].closes \in Nat
    /\ environ \in EnvValues
    /\ INGEST_TOKEN \in { StripEnv(e) : e \in EnvValues }
    /\ mainpc \in {"login", "running", "closing", "exited"}
    /\ exitpath \in {"none", "login failure", "unexpected error", "stopped"}
    /\ \A i \in DOMAIN posts :
          /\ posts[i].msg \in Messages
          /\ posts[i].session \in DOMAIN sessions
          /\ posts[i].pc \in {"post", "text", "done", "cancelled"}
    /\ \A l \in stdout : l.by \in 0..Len(posts)
    /\ epoch \in 0..nmsg
    /\ last.did \in {"none", "own", "unmonitored", "duplicate", "no session", "posted"}
    /\ nmsg \in 0..MaxMessages

-----------------------------------------------------------------------------
\* The state after the module is loaded and main() has called client.start().
Fresh ==
    /\ RECENT_IDS = {}
    /\ mainpc = "login"
    /\ stdout = {}
    /\ last = [msg |-> NoMessage, did |-> "none"]

\* The state after the login and k messages with the ids 1..k, an empty text,
\* another author and a monitored channel, all before the first ready event:
\* each went through lines 144-184, left its id and printed line 180.
AfterBacklog(k) ==
    /\ RECENT_IDS = 1..k
    /\ mainpc = "running"
    /\ stdout = { Line("Forwarding message", 0, ContentOf(k), 0) }
    /\ last = [msg |-> Message(k, alice, picks), did |-> "no session"]

Init ==
    /\ \E k \in Backlogs : IF k = 0 THEN Fresh ELSE AfterBacklog(k)
    /\ http_session = None
    /\ sessions = << >>
    /\ \E e \in EnvValues : environ = e /\ INGEST_TOKEN = StripEnv(e)
    /\ exitpath = "none"
    /\ posts = << >>
    /\ epoch = 0
    /\ nmsg = 0

-----------------------------------------------------------------------------
(* on_ready, lines 118-129 *)

on_ready ==
    /\ HandlersMayStart
    /\ IF NoOpenSession(http_session)
       THEN /\ sessions' = Append(sessions, [closed |-> FALSE, closes |-> 0])
            /\ http_session' = Len(sessions) + 1
       ELSE UNCHANGED <<sessions, http_session>>
    /\ stdout' = Printed(Printed(stdout, Line("Logged in as", 0, client_user.name, 0)),
                          IF API_URL # ""
                          THEN Line("Website forwarding ON", 0, API_URL, 0)
                          ELSE Line("Website forwarding OFF", 0, "", 0))
    /\ UNCHANGED <<RECENT_IDS, environ, INGEST_TOKEN, mainpc, exitpath, posts, epoch, last, nmsg>>

-----------------------------------------------------------------------------
(* post_to_website, lines 91-114 *)

\* Entering post_to_website: the headers are built and session.post() sends
\* the request; the coroutine then waits for the response.
StartPost(s, m, payload) ==
    IF API_URL = ""
    THEN posts
    ELSE Append(posts, [msg |-> m, epoch |-> epoch, session |-> s, url |-> API_URL,
                        json |-> payload, headers |-> Headers(INGEST_TOKEN),
                        pc |-> "post", status |-> 0, body |-> "",
                        read |-> FALSE, raised |-> FALSE])

\* variant: the status is never compared, the body never read
NotOk_never(status) == FALSE

\* resp.status != 200
NotOk(status) == status # HTTP_OK

\* What the body of "async with ... as resp" does on entry; ps is posts with
\* the response noted.
OnResponse(ps, i) ==
    /\ stdout' = Printed(stdout, Line("Posted to website", ps[i].status, "", i))
    /\ posts' = [ps EXCEPT ![i].pc = IF NotOk(ps[i].status) THEN "text" ELSE "done"]

\* print("Website response:", text); ps is posts with the read noted
OnText(ps, i) ==
    /\ stdout' = Printed(stdout, Line("Website response", 0, ps[i].body, i))
    /\ posts' = [ps EXCEPT ![i].pc = "done"]

\* variant: the exception leaves post_to_website
OnException_propagates(ps, i) ==
    /\ stdout' = stdout
    /\ posts' = [ps EXCEPT ![i].pc = "failed"]

\* except Exception as e: print(...); ps is posts with the exception noted
OnException(ps, i) ==
    /\ stdout' = Printed(stdout, Line("Website POST error", 0, "", i))
    /\ posts' = [ps EXCEPT ![i].pc = "done"]

\* session.post() yields a response
post_responds(i, r) ==
    /\ mainpc # "exited"
    /\ posts[i].pc = "post"
    /\ OnResponse([posts EXCEPT ![i].status = r.status, ![i].body = r.body], i)
    /\ UNCHANGED <<RECENT_IDS, http_session, sessions, environ, INGEST_TOKEN, mainpc, exitpath,
                   epoch, last, nmsg>>

\* session.post() raises (connection error, timeout, unserializable payload)
post_raises(i) ==
    /\ mainpc # "exited"
    /\ posts[i].pc = "post"
    /\ OnException([posts EXCEPT ![i].raised = TRUE], i)
    /\ UNCHANGED <<RECENT_IDS, http_session, sessions, environ, INGEST_TOKEN, mainpc, exitpath,
                   epoch, last, nmsg>>

\* await resp.text() returns the body
text_returns(i) ==
    /\ mainpc # "exited"
    /\ posts[i].pc = "text"
    /\ OnText([posts EXCEPT ![i].read = TRUE], i)
    /\ UNCHANGED <<RECENT_IDS, http_session, sessions, environ, INGEST_TOKEN, mainpc, exitpath,
                   epoch, last, nmsg>>

\* await resp.text() raises
text_raises(i) ==
    /\ mainpc # "exited"
    /\ posts[i].pc = "text"
    /\ OnException([posts EXCEPT ![i].raised = TRUE], i)
    /\ UNCHANGED <<RECENT_IDS, http_session, sessions, environ, INGEST_TOKEN, mainpc, exitpath,
                   epoch, last, nmsg>>

-----------------------------------------------------------------------------
(* on_message, lines 131-187 *)

on_message(m) ==
    /\ HandlersMayStart
    /\ IF IsOwnMessage(m)
       THEN /\ last' = [msg |-> m, did |-> "own"]
            /\ UNCHANGED <<RECENT_IDS, epoch, stdout, posts, nmsg>>
       ELSE IF NotMonitored(m)
       THEN /\ last' = [msg |-> m, did |-> "unmonitored"]
            /\ UNCHANGED <<RECENT_IDS, epoch, stdout, posts, nmsg>>
       ELSE IF IsDuplicate(RECENT_IDS, m)
       THEN /\ last' = [msg |-> m, did |-> "duplicate"]
            /\ UNCHANGED <<RECENT_IDS, epoch, stdout, posts, nmsg>>
       ELSE /\ nmsg < MaxMessages
            /\ nmsg' = nmsg + 1
            /\ RECENT_IDS' = LedgerAfter(RECENT_IDS, m)
            /\ epoch' = IF OverLimit(RECENT_IDS \cup {m.id}) THEN epoch + 1 ELSE epoch
            /\ IF Unusable(http_session)
               THEN /\ last' = [msg |-> m, did |-> "no session"]
                    /\ stdout' = Printed(stdout, Line("Forwarding message", 0, m.content, 0))
                    /\ UNCHANGED posts
               ELSE /\ last' = [msg |-> m, did |-> "posted"]
                    /\ stdout' = Printed(stdout, Line("Forwarding message", 0, m.content,
                                                      Len(posts) + 1))
                    /\ posts' = StartPost(http_session, m, Payload(m))
    /\ UNCHANGED <<http_session, sessions, environ, INGEST_TOKEN, mainpc, exitpath>>

-----------------------------------------------------------------------------
(* main, lines 190-205 *)

\* the finally block: close the session if there is an open one
Finally ==
    IF http_session # None /\ ~sessions[http_session].closed
    THEN /\ sessions' = [sessions EXCEPT ![http_session].closed = TRUE,
                                         ![http_session].closes = @ + 1]
         /\ mainpc' = "closing"
    ELSE /\ mainpc' = "exited"
         /\ UNCHANGED sessions

\* asyncio.run() cancels the tasks that are still waiting when main() is over
Cancelled(ps) ==
    [i \in DOMAIN ps |->
        IF ps[i].pc \in {"post", "text"} THEN [ps[i] EXCEPT !.pc = "cancelled"] ELSE ps[i]]

\* client.start(): the login succeeds and the gateway connection is up
client_connected ==
    /\ mainpc = "login"
    /\ mainpc' = "running"
    /\ UNCHANGED <<RECENT_IDS, http_session, sessions, environ, INGEST_TOKEN, exitpath, posts,
                   stdout, epoch, last, nmsg>>

\* except discord.errors.LoginFailure
main_login_failure ==
    /\ mainpc = "login"
    /\ exitpath' = "login failure"
    /\ stdout' = Printed(stdout, Line("Login failed: Invalid token", 0, "", 0))
    /\ Finally
    /\ posts' = IF mainpc' = "exited" THEN Cancelled(posts) ELSE posts
    /\ UNCHANGED <<RECENT_IDS, http_session, environ, INGEST_TOKEN, epoch, last, nmsg>>

\* except Exception as e
main_unexpected_error ==
    /\ mainpc \in {"login", "running"}
    /\ exitpath' = "unexpected error"
    /\ stdout' = Printed(stdout, Line("Unexpected error", 0, "", 0))
    /\ Finally
    /\ posts' = IF mainpc' = "exited" THEN Cancelled(posts) ELSE posts
    /\ UNCHANGED <<RECENT_IDS, http_session, environ, INGEST_TOKEN, epoch, last, nmsg>>

\* client.start() returns (the client was closed), or ends with a
\* BaseException that neither except clause names (KeyboardInterrupt,
\* CancelledError): nothing is printed and the finally block runs
main_client_stopped ==
    /\ mainpc \in {"login", "running"}
    /\ exitpath' = "stopped"
    /\ Finally
    /\ posts' = IF mainpc' = "exited" THEN Cancelled(posts) ELSE posts
    /\ UNCHANGED <<RECENT_IDS, http_session, environ, INGEST_TOKEN, stdout, epoch, last, nmsg>>

\* await http_session.close() returns
main_session_closed ==
    /\ mainpc = "closing"
    /\ mainpc' = "exited"
    /\ stdout' = Printed(stdout, Line("HTTP session closed", 0, "", 0))
    /\ posts' = Cancelled(posts)
    /\ UNCHANGED <<RECENT_IDS, http_session, sessions, environ, INGEST_TOKEN, exitpath, epoch,
                   last, nmsg>>

-----------------------------------------------------------------------------
Next ==
    \/ on_ready
    \/ \E m \in Messages : on_message(m)
    \/ \E i \in DOMAIN posts, r \in Responses : post_responds(i, r)
    \/ \E i \in DOMAIN posts : post_raises(i)
    \/ \E i \in DOMAIN posts : text_returns(i)
    \/ \E i \in DOMAIN posts : text_raises(i)
    \/ client_connected
    \/ main_login_failure
    \/ main_unexpected_error
    \/ main_client_stopped
    \/ main_session_closed

Spec == Init /\ [][Next]_vars

-----------------------------------------------------------------------------
(* Properties *)

SessionOpen == http_session # None /\ ~sessions[http_session].closed

\* C1: two POSTs never carry the same message id within one ledger epoch
\* (the epoch of a POST being the one its message arrived in): once a
\* message has been forwarded, a redelivery before the next reset adds no
\* POST, and the same message delivered twice yields one POST.
C1_OnePostPerIdAndEpoch ==
    \A i, j \in DOMAIN posts :
        (posts[i].msg.id = posts[j].msg.id /\ posts[i].epoch = posts[j].epoch) => i = j

\* a redelivery was dropped while the POST of the first delivery stands
C1_Witness ==
    /\ last.did = "duplicate"
    /\ Len(posts) = 1
    /\ posts[1].msg.id = last.msg.id
    /\ posts[1].epoch = epoch

\* C2: the ledger never holds more than 5000 ids, and an insert into a
\* ledger that already holds 5000 leaves it empty.
C2_LedgerBounded ==
    /\ [](Cardinality(RECENT_IDS) <= LedgerLimit)
    /\ [][(RECENT_IDS' # RECENT_IDS /\ Cardinality(RECENT_IDS) >= LedgerLimit)
             => RECENT_IDS' = {}]_vars

\* an insert has pushed a full ledger over the limit and emptied it
C2_Witness == epoch = 1 /\ RECENT_IDS = {} /\ nmsg = 1

\* C3: no POST is ever issued for a message whose author is the bot itself.
C3_NoPostForOwnMessage ==
    \A i \in DOMAIN posts : posts[i].msg.author.id # client_user.id

\* an own message on a monitored channel, with an id the ledger does not
\* hold, arrived while the session was open, and nothing was posted
C3_Witness ==
    /\ last.did = "own"
    /\ last.msg.channel.id \in SOURCE_CHANNEL_IDS
    /\ last.msg.id \notin RECENT_IDS
    /\ SessionOpen
    /\ posts = << >>

\* C4: no POST is ever issued for a message of a channel outside
\* SOURCE_CHANNEL_IDS.
C4_NoPostForUnmonitoredChannel ==
    \A i \in DOMAIN posts : posts[i].msg.channel.id \in SOURCE_CHANNEL_IDS

\* a message of another author on an unmonitored channel arrived while the
\* session was open and its id was new, and nothing was posted
C4_Witness ==
    /\ last.did = "unmonitored"
    /\ last.msg.author.id # client_user.id
    /\ last.msg.id \notin RECENT_IDS
    /\ SessionOpen
    /\ posts = << >>

\* A step of on_message, whose message is then last'.msg.
OnMessageStep == last' # last \/ nmsg' # nmsg

PassesFilters(m) ==
    /\ m.author.id # client_user.id
    /\ m.channel.id \in SOURCE_CHANNEL_IDS
    /\ m.id \notin RECENT_IDS

StatusLine(i) == Line("Posted to website", posts[i].status, "", i)

BodyLine(i) == Line("Website response", 0, posts[i].body, i)

ErrorLine(i) == Line("Website POST error", 0, "", i)

\* C5, as claimed: every finished forward has logged a response status.
C5_StatusAlwaysLogged ==
    \A i \in DOMAIN posts :
        posts[i].pc = "done" => \E r \in Responses : Line("Posted to website", r.status, "", i) \in stdout

\* C5, amended: a message that passes the filters, has a new id and finds the
\* session open is posted exactly once, with its text as the body's content;
\* nothing else adds a POST; and the status of every response that arrives
\* is logged.
C5_QualifyingMessagePosted ==
    /\ [][(OnMessageStep /\ PassesFilters(last'.msg) /\ SessionOpen)
             => /\ Len(posts') = Len(posts) + 1
                /\ \A i \in DOMAIN posts : posts'[i] = posts[i]
                /\ posts'[Len(posts')].msg = last'.msg
                /\ posts'[Len(posts')].json.content = last'.msg.content
                /\ posts'[Len(posts')].session = http_session]_vars
    /\ [][Len(posts') # Len(posts)
             => (OnMessageStep /\ PassesFilters(last'.msg) /\ SessionOpen)]_vars
    /\ [](\A i \in DOMAIN posts : posts[i].status # 0 => StatusLine(i) \in stdout)

\* the message with a text was posted, answered, and its status logged
C5_Witness ==
    /\ Len(posts) = 1
    /\ posts[1].msg.content = "pick: Lakers -4"
    /\ posts[1].json.content = "pick: Lakers -4"
    /\ posts[1].pc = "done"
    /\ posts[1].status = 200
    /\ StatusLine(1) \in stdout

\* C6: a message that passes the filters with a new id while there is no
\* session, or a closed one, issues no POST and the handler just returns.
C6_NoPostWithoutSession ==
    [][(OnMessageStep /\ PassesFilters(last'.msg) /\ ~SessionOpen)
          => (posts' = posts /\ last'.did = "no session")]_vars

\* such a message arrived after the session had been closed
C6_Witness ==
    /\ last.did = "no session"
    /\ http_session # None
    /\ sessions[http_session].closed

\* C7: an exception raised by session.post() or by resp.text() is caught and
\* logged, the handler is over, no further POST is issued, and main() goes on
\* as before.
C7_ExceptionsCaught ==
    [][\A i \in DOMAIN posts :
          (posts'[i].raised /\ ~posts[i].raised)
             => /\ posts'[i].pc = "done"
                /\ ErrorLine(i) \in stdout'
                /\ Len(posts') = Len(posts)
                /\ mainpc' = mainpc]_vars

\* reading a body failed, and a later POST was served while main() still
\* awaited client.start()
C7_Witness ==
    /\ mainpc = "running"
    /\ Len(posts) = 2
    /\ posts[1].raised /\ posts[1].status # 0 /\ posts[1].pc = "done"
    /\ ErrorLine(1) \in stdout
    /\ posts[2].pc = "done" /\ posts[2].status = 200

\* C8, as claimed: the status of every response is logged, and a finished
\* forward has logged the body exactly when the status was not 200.
C8_BodyLoggedIffNotOk ==
    \A i \in DOMAIN posts :
        /\ posts[i].status # 0 => StatusLine(i) \in stdout
        /\ (posts[i].pc = "done" /\ posts[i].status # 0)
              => (BodyLine(i) \in stdout <=> posts[i].status # HTTP_OK)

\* C8, amended: the status of every response is logged; the body is logged
\* exactly when the status is not 200 and resp.text() has returned it, and a
\* forward that ends without an exception after a status other than 200 has
\* read the body; a response adds no POST and leaves main() where it was.
C8_NonOkResponseLogged ==
    /\ [](\A i \in DOMAIN posts :
            /\ posts[i].status # 0 => StatusLine(i) \in stdout
            /\ BodyLine(i) \in stdout <=> (posts[i].status \notin {0, HTTP_OK} /\ posts[i].read)
            /\ (posts[i].pc = "done" /\ posts[i].status \notin {0, HTTP_OK} /\ ~posts[i].raised)
                  => posts[i].read)
    /\ [][\A i \in DOMAIN posts :
            posts'[i].status # posts[i].status
               => (Len(posts') = Len(posts) /\ mainpc' = mainpc)]_vars

\* status 500 with body "server error": both are logged, and main() runs on
C8_Witness ==
    /\ mainpc = "running"
    /\ Len(posts) = 1
    /\ posts[1].pc = "done"
    /\ posts[1].status = 500
    /\ Line("Posted to website", 500, "", 1) \in stdout
    /\ Line("Website response", 0, "server error", 1) \in stdout

\* C9, as claimed: one session is ever created, every POST uses it, and it is
\* closed once, which has happened when the process is over.
C9_OneSessionClosedOnce ==
    /\ Len(sessions) <= 1
    /\ \A i \in DOMAIN posts : posts[i].session = 1
    /\ \A s \in DOMAIN sessions : sessions[s].closes <= 1
    /\ mainpc = "exited" => \A s \in DOMAIN sessions : sessions[s].closes = 1

\* C10, as claimed: when main() is over, a login failure or an unexpected
\* error has been logged and no session is open.
C10_ExitLeavesNoOpenSession ==
    mainpc = "exited" =>
        /\ exitpath = "login failure"
              => Line("Login failed: Invalid token", 0, "", 0) \in stdout
        /\ exitpath = "unexpected error" => Line("Unexpected error", 0, "", 0) \in stdout
        /\ \A s \in DOMAIN sessions : sessions[s].closed

\* the embeds of a message whose to_dict() returns
Serializable(m) == SelectSeq(m.embeds, LAMBDA e : ~e.raises)

\* C11: the body of every POST lists the message's attachments one for one
\* and in order, with the same filename, url, content type and size, and its
\* embeds are exactly the embeds that serialized, in order; an embed that
\* fails is left out and the message is posted all the same.
C11_PayloadMirrorsMessage ==
    \A i \in DOMAIN posts :
        LET m == posts[i].msg
            body == posts[i].json
        IN  /\ Len(body.attachments) = Len(m.attachments)
            /\ \A k \in DOMAIN m.attachments :
                  /\ body.attachments[k].filename = m.attachments[k].filename
                  /\ body.attachments[k].url = m.attachments[k].url
                  /\ body.attachments[k].contentType = m.attachments[k].content_type
                  /\ body.attachments[k].size = m.attachments[k].size
            /\ Len(body.embeds) = Len(Serializable(m))
            /\ \A k \in DOMAIN body.embeds : body.embeds[k].title = Serializable(m)[k].title

\* a message with two attachments and two embeds, the first of which fails to
\* serialize, was posted with two attachments and the one good embed
C11_Witness ==
    /\ Len(posts) = 1
    /\ Len(posts[1].msg.attachments) = 2
    /\ Len(posts[1].msg.embeds) = 2
    /\ posts[1].msg.embeds[1].raises
    /\ Len(posts[1].json.attachments) = 2
    /\ Len(posts[1].json.embeds) = 1
    /\ posts[1].json.embeds[1].title = "odds"

\* C12: every POST carries the header Content-Type: application/json, and
\* the header x-ingest-token, holding the configured secret without its
\* surrounding whitespace, exactly when the environment sets a secret that is
\* more than whitespace; an unset, empty or blank secret gives no such header.
C12_HeadersOfEveryPost ==
    LET cs == IF environ.present THEN environ.chars ELSE << >>
        inked == { k \in DOMAIN cs : cs[k] # " " }
        first == CHOOSE k \in inked : \A j \in inked : k <= j
        final == CHOOSE k \in inked : \A j \in inked : k >= j
        secret == IF inked = {} THEN << >> ELSE SubSeq(cs, first, final)
    IN  \A i \in DOMAIN posts :
            /\ <<"Content-Type", "application/json">> \in posts[i].headers
            /\ \A h \in posts[i].headers : h[1] \in {"Content-Type", "x-ingest-token"}
            /\ (secret = << >>) <=> (\A h \in posts[i].headers : h[1] # "x-ingest-token")
            /\ \A h \in posts[i].headers : h[1] = "x-ingest-token" => h[2] = Text(secret)

\* one POST went out with the trimmed secret of an environment value that
\* has whitespace around it
C12_Witness ==
    /\ Len(posts) = 1
    /\ environ.present
    /\ Len(environ.chars) = 5
    /\ <<"x-ingest-token", "tok">> \in posts[1].headers

\* C13: the id of a message is in the ledger from the moment its POST is
\* issued and stays there until the next reset, whatever becomes of the POST
\* (a 200, another status, an exception): within one ledger epoch there is
\* at most one POST per id, and no outcome of a POST takes the id out.
C13_LedgerKeepsIdWhateverTheOutcome ==
    /\ \A i \in DOMAIN posts : posts[i].epoch = epoch => posts[i].msg.id \in RECENT_IDS
    /\ \A id \in MsgIds : \A e \in 0..epoch :
          Cardinality({ i \in DOMAIN posts : posts[i].msg.id = id /\ posts[i].epoch = e }) <= 1

\* the only POST of a message raised, its id is still in the ledger and a
\* redelivery of the message was dropped
C13_Witness ==
    /\ Len(posts) = 1
    /\ posts[1].raised
    /\ posts[1].pc = "done"
    /\ posts[1].msg.id \in RECENT_IDS
    /\ last.did = "duplicate"
    /\ last.msg.id = posts[1].msg.id

\* C14: the lookup and the insert of an id run without a suspension between
\* them, so a handler that starts while the POST of the same id is still in
\* flight, with no reset in between, issues no POST and leaves the ledger as
\* it is: the two handlers issue one POST in total.
C14_NoSecondPostWhileInFlight ==
    [][(/\ OnMessageStep
        /\ \E i \in DOMAIN posts : /\ posts[i].pc \in {"post", "text"}
                                   /\ posts[i].msg.id = last'.msg.id
                                   /\ posts[i].epoch = epoch)
          => posts' = posts /\ RECENT_IDS' = RECENT_IDS]_vars

\* the second handler of an id ran while the POST of the first was waiting
\* for its response, and that POST is the only one
C14_Witness ==
    /\ last.did = "duplicate"
    /\ Len(posts) = 1
    /\ posts[1].pc = "post"
    /\ posts[1].msg.id = last.msg.id
    /\ posts[1].epoch = epoch

\* C15: the reset comes after the insert, so the id whose insert takes the
\* ledger past 5000 is thrown away with the rest: right after that handler's
\* ledger step the id is not in the ledger; and a message that was posted
\* before or at a reset and whose id is seen again after it, with the session
\* open, is posted a second time.
C15_ResetForgetsTheNewId ==
    /\ [][(OnMessageStep /\ PassesFilters(last'.msg) /\ Cardinality(RECENT_IDS) >= LedgerLimit)
             => (last'.msg.id \notin RECENT_IDS' /\ RECENT_IDS' = {})]_vars
    /\ [][(/\ OnMessageStep
           /\ PassesFilters(last'.msg)
           /\ SessionOpen
           /\ \E i \in DOMAIN posts : posts[i].msg.id = last'.msg.id)
             => /\ Len(posts') = Len(posts) + 1
                /\ posts'[Len(posts')].msg.id = last'.msg.id
                /\ \A i \in DOMAIN posts :
                      posts[i].msg.id = last'.msg.id => posts[i].epoch < posts'[Len(posts')].epoch]_vars

\* the message whose insert emptied the full ledger was posted, arrived again
\* and was posted again
C15_Witness ==
    /\ Len(posts) = 2
    /\ posts[1].msg.id = posts[2].msg.id
    /\ posts[1].epoch = 0
    /\ posts[2].epoch = 1
    /\ epoch = 1
    /\ RECENT_IDS = {posts[2].msg.id}

\* the finally block of main() has closed a session
ShutdownClosedSession == \E s \in DOMAIN sessions : sessions[s].closes > 0

\* C16, as claimed: once the shutdown has closed the session no POST is
\* issued any more; the close itself cancels no POST in flight; and a session
\* is closed only by the step in which client.start() has ended.
C16_NoPostAfterShutdownClose ==
    /\ [][ShutdownClosedSession => Len(posts') = Len(posts)]_vars
    /\ [][(~ShutdownClosedSession /\ ShutdownClosedSession') => posts' = posts]_vars
    /\ [][(\E s \in DOMAIN sessions : ~sessions[s].closed /\ sessions'[s].closed)
             => (mainpc \in {"login", "running"} /\ mainpc' = "closing")]_vars

\* C17: a handler is suspended only inside its POST, and no handler waits for
\* the POST of another: while a POST is unresolved and the client runs, the
\* handler of any further message can take its step, and every unresolved
\* POST can receive its response next, whichever other POSTs are unresolved.
C17_HandlersDoNotWaitForPosts ==
    \A i \in DOMAIN posts :
        /\ (posts[i].pc = "post" /\ mainpc = "running" /\ nmsg < MaxMessages)
              => \A m \in Messages : ENABLED on_message(m)
        /\ (posts[i].pc = "post" /\ mainpc # "exited")
              => \A r \in Responses : ENABLED post_responds(i, r)

\* two messages with different ids were posted one after the other, and the
\* response of the second has arrived while the first POST is unresolved
C17_Witness ==
    /\ Len(posts) = 2
    /\ posts[1].msg.id # posts[2].msg.id
    /\ posts[1].pc = "post"
    /\ posts[2].pc = "done"
    /\ posts[2].status = 200

\* C18: the listener only filters: the handler of a message written by the
\* bot itself, or of a channel that is not monitored, changes neither the
\* ledger nor the session nor the POSTs nor the log, so the id of such a
\* message is not recorded and a later message with that id that passes the
\* filters is still new to the ledger.
C18_RejectedEventChangesNothing ==
    [][(/\ OnMessageStep
        /\ \/ last'.msg.author.id = client_user.id
           \/ last'.msg.channel.id \notin SOURCE_CHANNEL_IDS)
          => /\ UNCHANGED <<RECENT_IDS, http_session, sessions, posts, stdout, epoch>>
             /\ (last'.msg.id \notin RECENT_IDS => last'.msg.id \notin RECENT_IDS')]_vars

\* a message of the bot itself was turned away while the session was open and
\* the ledger held the id of another, posted message: its own id is not there
C18_Witness ==
    /\ last.did = "own"
    /\ SessionOpen
    /\ Len(posts) = 1
    /\ posts[1].msg.id # last.msg.id
    /\ posts[1].msg.id \in RECENT_IDS
    /\ last.msg.id \notin RECENT_IDS

\* C19: a message that passes the filters with a new id while there is no
\* session, or a closed one, is recorded in the ledger all the same (unless
\* its own insert resets the ledger) and is not posted; and the handler of a
\* message whose id the ledger holds posts nothing, whether or not that id
\* was ever posted and whether or not the session is open by now: until the
\* next reset the message is lost.
C19_UnsentMessageStaysRecorded ==
    /\ [][(OnMessageStep /\ PassesFilters(last'.msg) /\ ~SessionOpen)
             => /\ posts' = posts
                /\ (Cardinality(RECENT_IDS) < LedgerLimit => last'.msg.id \in RECENT_IDS')]_vars
    /\ [][(OnMessageStep /\ last'.msg.id \in RECENT_IDS)
             => (posts' = posts /\ RECENT_IDS' = RECENT_IDS)]_vars

\* a message arrived before the first ready event and was never posted; the
\* session is open now and a redelivery of the message was dropped
C19_Witness ==
    /\ last.did = "duplicate"
    /\ last.msg.id \in MsgIds
    /\ last.msg.id \in RECENT_IDS
    /\ SessionOpen
    /\ posts = << >>
    /\ epoch = 0

\* C20: however many ready events arrive, at most one session is open at any
\* time and the open one is the one http_session names: a ready event that
\* finds the session open leaves it in place, and a session is constructed
\* only when there is none or the current one is closed, so no open session
\* is ever dropped.
C20_AtMostOneOpenSession ==
    /\ Cardinality({ s \in DOMAIN sessions : ~sessions[s].closed }) <= 1
    /\ \A s \in DOMAIN sessions : ~sessions[s].closed => s = http_session
    /\ http_session \in {None} \cup DOMAIN sessions
    /\ http_session # None => http_session = Len(sessions)

\* a second ready event found the first session closed and constructed the
\* second, which is the only open one
C20_Witness ==
    /\ Len(sessions) = 2
    /\ sessions[1].closed
    /\ ~sessions[2].closed
    /\ http_session = 2

====
